---- MODULE Spec2Model ----
(***************************************************************************)
(* Model of objax/nn/rnn_redesign.py: three RNN cells (MyRnnCell,          *)
(* FactorizedRnnCell, DDLRnnCell), the drivers RNN, VectorizedRNN and       *)
(* FactorizedRNN, and the example session at the end of the file.           *)
(*                                                                         *)
(* Tensors are records [shape, data] with row-major data, as numpy / jax    *)
(* arrays are.  Numbers are integers; the activation (tanh in the source)  *)
(* is abstracted by the saturating odd function clamp(-1, 1), which keeps   *)
(* every state vector inside a finite set.                                  *)
(***************************************************************************)
EXTENDS Integers, Sequences, FiniteSets, TLC

(***************************************************************************)
(* Bounds of the model.                                                     *)
(***************************************************************************)
\* dimension of one input element (nin, 3 in the example session)
NIn == 2
\* dimension of the hidden state (ns, 10 in the example session)
NState == 2
\* dimension of one output (nout, 4 in the example session)
NOut == 1
\* largest batch size (batch, 64 in the example session)
MaxBatch == 2
\* largest sequence length (seq, 7 in the example session)
MaxSeq == 2

(***************************************************************************)
(* Tensors.                                                                 *)
(***************************************************************************)
RECURSIVE Prod(_)
Prod(shape) == IF shape = <<>> THEN 1 ELSE Head(shape) * Prod(Tail(shape))

Front(q) == SubSeq(q, 1, Len(q) - 1)

Rank(t) == Len(t.shape)

\* (both fields are held as tuples)
Tensor(shape, data) == [shape |-> <<>> \o shape, data |-> <<>> \o data]

\* jn.zeros(shape)
Zeros(shape) == Tensor(shape, [p \in 1..Prod(shape) |-> 0])

\* the placeholder held by a variable that holds no tensor
Nil == Tensor(<<0>>, <<>>)

RECURSIVE SumTo(_, _)
\* f[1] + ... + f[n]
SumTo(f, n) == IF n = 0 THEN 0 ELSE f[n] + SumTo(f, n - 1)

\* jn.dot(x, w) for a 2-d w: defined when x's last axis has w's first length
CanDot(x, w) == /\ Rank(x) >= 1
                /\ Rank(w) = 2
                /\ x.shape[Rank(x)] = w.shape[1]

Dot(x, w) ==
    LET k == w.shape[1]
        n == w.shape[2]
        rows == Prod(Front(x.shape))
    IN  Tensor(Front(x.shape) \o <<n>>,
               [p \in 1..(rows * n) |->
                   LET r == (p - 1) \div n
                       j == ((p - 1) % n) + 1
                   IN  SumTo([m \in 1..k |-> x.data[r * k + m] * w.data[(m - 1) * n + j]], k)])

\* shape padded on the left with 1s to rank r (numpy broadcasting)
PadShape(shape, r) == [a \in 1..r |-> IF a <= r - Len(shape) THEN 1 ELSE shape[a - (r - Len(shape))]]

MaxOf(a, b) == IF a >= b THEN a ELSE b

BroadcastRank(a, b) == MaxOf(Rank(a), Rank(b))

\* a + b is defined when, axis by axis from the right, the lengths agree or one is 1
CanAdd(a, b) ==
    LET r == BroadcastRank(a, b)
        sa == PadShape(a.shape, r)
        sb == PadShape(b.shape, r)
    IN  \A ax \in 1..r : sa[ax] = sb[ax] \/ sa[ax] = 1 \/ sb[ax] = 1

\* the 0-based position in a tensor of shape `shape` (padded: sp) of the element
\* that result position p (0-based, result shape rs) reads
SourcePos(p, rs, sp) ==
    LET r == Len(rs)
        idx == [ax \in 1..r |-> IF sp[ax] = 1 THEN 0
                                ELSE (p \div Prod(SubSeq(rs, ax + 1, r))) % rs[ax]]
    IN  SumTo([ax \in 1..r |-> idx[ax] * Prod(SubSeq(sp, ax + 1, r))], r)

Add(a, b) ==
    LET r == BroadcastRank(a, b)
        sa == PadShape(a.shape, r)
        sb == PadShape(b.shape, r)
        rs == [ax \in 1..r |-> IF sa[ax] = 1 THEN sb[ax] ELSE sa[ax]]
    IN  Tensor(rs, [p \in 1..Prod(rs) |->
                       a.data[SourcePos(p - 1, rs, sa) + 1] + b.data[SourcePos(p - 1, rs, sb) + 1]])

RECURSIVE SumLead(_)
SumLead(ts) == IF ts = <<>> THEN 0 ELSE Head(ts).shape[1] + SumLead(Tail(ts))

RECURSIVE JoinData(_)
JoinData(ts) == IF ts = <<>> THEN <<>> ELSE Head(ts).data \o JoinData(Tail(ts))

\* jn.concatenate(ts, axis=0): needs at least one array, and all arrays of one
\* rank >= 1 that agree on every axis but the first
CanConcatenate(ts) ==
    /\ Len(ts) >= 1
    /\ \A k \in 1..Len(ts) : /\ Rank(ts[k]) >= 1
                            /\ Rank(ts[k]) = Rank(ts[1])
                            /\ Tail(ts[k].shape) = Tail(ts[1].shape)

Concatenate(ts) == Tensor(<<SumLead(ts)>> \o Tail(ts[1].shape), JoinData(ts))

\* jn.reshape(t, shape): defined when the sizes agree
CanReshape(t, shape) == Prod(shape) = Prod(t.shape)

Reshape(t, shape) == Tensor(shape, t.data)

\* t.transpose((1, 0, 2)): defined for a 3-d tensor
CanTranspose(t) == Rank(t) = 3

Transpose(t) ==
    LET a == t.shape[1]
        b == t.shape[2]
        c == t.shape[3]
    IN  Tensor(<<b, a, c>>,
               [p \in 1..(a * b * c) |->
                   LET k == (p - 1) % c
                       i == ((p - 1) \div c) % a
                       j == (p - 1) \div (c * a)
                   IN  t.data[(i * b + j) * c + k + 1]])

\* t[i] for a Python integer i: a negative i counts from the end, an index past
\* the end is clamped to the last entry (jax), and an axis of length 0 has no entry
CanIndex(t, i) == Rank(t) >= 1 /\ t.shape[1] > 0

Index(t, i) ==
    LET n == t.shape[1]
        w == IF i < 0 THEN i + n ELSE i
        c == IF w < 0 THEN 0 ELSE IF w > n - 1 THEN n - 1 ELSE w
        sz == Prod(Tail(t.shape))
    IN  Tensor(Tail(t.shape), [p \in 1..sz |-> t.data[c * sz + p]])

\* the stack of the tensors ts (all of shape `each`) along a new leading axis
Stack(ts, each) == Tensor(<<Len(ts)>> \o each, JoinData(ts))

(***************************************************************************)
(* objax.nn.Linear and the activation.                                      *)
(***************************************************************************)
\* weight set `seed`, layer number k: an r x c weight matrix with entries in -1..1
Weight(seed, k, r, c) ==
    Tensor(<<r, c>>, [p \in 1..(r * c) |->
                         LET i == ((p - 1) \div c) + 1
                             j == ((p - 1) % c) + 1
                         IN  ((seed + k + 2 * i + j * (i + seed)) % 3) - 1])

Bias(seed, k, c) == Tensor(<<c>>, [j \in 1..c |-> ((seed + k + j) % 3) - 1])

\* objax.nn.Linear(nin, nout, use_bias)
Linear(seed, k, nin, nout, use_bias) ==
    [w |-> Weight(seed, k, nin, nout), b |-> Bias(seed, k, nout), use_bias |-> use_bias]

\* Linear.__call__: jn.dot(x, w), plus b when use_bias
CanLinear(l, x) == CanDot(x, l.w)

LinearCall(l, x) == IF l.use_bias THEN Add(Dot(x, l.w), l.b) ELSE Dot(x, l.w)

\* the activation, elementwise: saturation at -1 and 1
Activation(t) == Tensor(t.shape, [p \in 1..Len(t.data) |->
                                     IF t.data[p] > 1 THEN 1
                                     ELSE IF t.data[p] < -1 THEN -1 ELSE t.data[p]])

(***************************************************************************)
(* The cells.                                                               *)
(***************************************************************************)
\* MyRnnCell(nin, nstate): op = Sequential([Linear(nin + nstate, nstate),
\* Linear(nstate, nstate), activation])
MyRnnCell(seed, nin, nstate) ==
    [kind |-> "My", nin |-> nin, nstate |-> nstate,
     a |-> Linear(seed, 1, nin + nstate, nstate, TRUE),
     h |-> Linear(seed, 2, nstate, nstate, TRUE)]

\* DDLRnnCell(nin, nstate): wxh has no bias, whh has one
DDLRnnCell(seed, nin, nstate) ==
    [kind |-> "DDL", nin |-> nin, nstate |-> nstate,
     a |-> Linear(seed, 1, nin, nstate, FALSE),
     h |-> Linear(seed, 2, nstate, nstate, TRUE)]

\* mutant: win is built with a bias as well
FactorizedRnnCellBiased(seed, nin, nstate) ==
    [kind |-> "Factorized", nin |-> nin, nstate |-> nstate,
     a |-> Linear(seed, 1, nin, nstate, TRUE),
     h |-> Linear(seed, 2, nstate, nstate, TRUE)]

\* FactorizedRnnCell(nin, nstate): win has no bias, wn has one
FactorizedRnnCell(seed, nin, nstate) ==
    [kind |-> "Factorized", nin |-> nin, nstate |-> nstate,
     a |-> Linear(seed, 1, nin, nstate, FALSE),
     h |-> Linear(seed, 2, nstate, nstate, TRUE)]

\* MyRnnCell.__call__(state, x) = op(concatenate((x, state), axis=0))
CanMyCall(cell, state, x) ==
    /\ CanConcatenate(<<x, state>>)
    /\ CanLinear(cell.a, Concatenate(<<x, state>>))
    /\ CanLinear(cell.h, LinearCall(cell.a, Concatenate(<<x, state>>)))

MyCall(cell, state, x) ==
    Activation(LinearCall(cell.h, LinearCall(cell.a, Concatenate(<<x, state>>))))

\* DDLRnnCell.__call__(state, x) = activation(whh(state) + wxh(x))
CanDDLCall(cell, state, x) ==
    /\ CanLinear(cell.h, state)
    /\ CanLinear(cell.a, x)
    /\ CanAdd(LinearCall(cell.h, state), LinearCall(cell.a, x))

DDLCall(cell, state, x) ==
    Activation(Add(LinearCall(cell.h, state), LinearCall(cell.a, x)))

\* cell(state, x) for the single-step cells
CanCell(cell, state, x) ==
    IF cell.kind = "My" THEN CanMyCall(cell, state, x) ELSE CanDDLCall(cell, state, x)

CellCall(cell, state, x) ==
    IF cell.kind = "My" THEN MyCall(cell, state, x) ELSE DDLCall(cell, state, x)

\* output_layer(state, nout) = objax.nn.Linear(state, nout)
OutputLayer(seed, state, nout) == Linear(seed, 3, state, nout, TRUE)

(***************************************************************************)
(* RNN.single / VectorizedRNN.single: one step of the fold.                 *)
(***************************************************************************)
CanSingle(cell, olayer, state_i, x_i) ==
    /\ CanCell(cell, state_i, x_i)
    /\ CanLinear(olayer, CellCall(cell, state_i, x_i))

\* mutant: the output is computed from the state before the update
SingleOutputBeforeUpdate(cell, olayer, state_i, x_i) ==
    <<CellCall(cell, state_i, x_i), LinearCall(olayer, state_i)>>

\* the pair (next_state, next_output)
Single(cell, olayer, state_i, x_i) ==
    LET next_state == CellCall(cell, state_i, x_i)
    IN  <<next_state, LinearCall(olayer, next_state)>>

\* objax.functional.scan traces its step once on the shapes of the carry and of
\* one element before it runs: the step must accept them and return a carry of
\* the same shape, also for a sequence of length 0
CanScan(cell, olayer, init, xs) ==
    /\ Rank(xs) >= 1
    /\ CanSingle(cell, olayer, init, Zeros(Tail(xs.shape)))
    /\ Single(cell, olayer, init, Zeros(Tail(xs.shape)))[1].shape = init.shape

\* shape of one output of the step
OutShape(cell, olayer, init, xs) == Single(cell, olayer, init, Zeros(Tail(xs.shape)))[2].shape

(***************************************************************************)
(* State.                                                                   *)
(***************************************************************************)
VARIABLES
    kind,       \* class of rnn_cell: "DDL" or "My"
    seed,       \* the weight set of the cells and of out_layer
    odim,       \* input dimension the output layer was built with
    x,          \* the input batch, (batch, seq, nin)
    s,          \* the initial states, (batch, ns)
    pc,         \* the session's position (a line of the example session)
    xs,         \* RNN.__call__ / VectorizedRNN.__call__: the sequence scan folds over
    i,          \* scan: number of elements folded so far
    b,          \* Vectorize: number of batch slices done so far
    carry,      \* scan: the state threaded through the fold
    acc,        \* scan: the outputs so far
    vacc,       \* Vectorize: the per-slice results so far
    y1,         \* result of r(x, s)
    y4,         \* result of rnn_vec(x, s)
    fr,         \* per thread: the frame of its FactorizedRnnCell / FactorizedRNN call
    factor,     \* per FactorizedRnnCell instance: self.factor
    lastw,      \* per instance: the thread whose call wrote self.factor last (0: none)
    kept,       \* per thread: a call it completed and whose result it kept
    r           \* the driver object built last: its class and what it was built from

vars == <<kind, seed, odim, x, s, pc, xs, i, b, carry, acc, vacc,
          y1, y4, fr, factor, lastw, kept, r>>

sessionVars == <<kind, seed, odim, x, s>>
scanVars == <<xs, i, b, carry, acc, vacc>>
resultVars == <<y1, y4, r>>
frameVars == <<fr, factor, lastw>>

Threads == 1..2
Insts == 1..2

\* the objects of the example session
rnn_cell == IF kind = "My" THEN MyRnnCell(seed, NIn, NState) ELSE DDLRnnCell(seed, NIn, NState)
out_layer == OutputLayer(seed, odim, NOut)
factorized_cell == FactorizedRnnCell(seed, NIn, NState)

\* a result slot: st is "none", "ok" or "raised"; val is the value returned
NoResult == [st |-> "none", val |-> <<Nil, Nil>>]
Raised == [st |-> "raised", val |-> <<Nil, Nil>>]
Returned(v) == [st |-> "ok", val |-> v]

\* no call recorded
NoCall == [via |-> "none", x |-> Nil, state |-> Nil, res |-> NoResult, between |-> FALSE]

IdleFrame == [pc |-> "idle", inst |-> 1, via |-> "cell", x |-> Nil, init |-> Nil,
              state |-> Nil, i |-> 0, output |-> <<>>, ret |-> Nil,
              val |-> <<Nil, Nil>>, reads |-> <<>>]

(***************************************************************************)
(* Inputs.                                                                  *)
(***************************************************************************)
\* the input elements the session draws from
InVec(v) == Tensor(<<NIn>>, [j \in 1..NIn |-> IF v = 0 THEN j % 2 ELSE ((j + v) % 3) - 1])
\* the initial state rows the session draws from (the source uses zeros)
StVec(v) == Tensor(<<NState>>, [j \in 1..NState |-> IF v = 0 THEN 0 ELSE IF j % 2 = 1 THEN 1 ELSE -1])

\* the (B, T, nin) batch whose element (bb, tt) is InVec(m[(bb - 1) * T + tt])
BatchOf(B, T, m) == Stack([k \in 1..(B * T) |-> InVec(m[k])], <<NIn>>)

InputBatch(B, T, m) == Reshape(BatchOf(B, T, m), <<B, T, NIn>>)

StateBatch(B, m) == Stack([k \in 1..B |-> StVec(m[k])], <<NState>>)

(***************************************************************************)
(* FactorizedRnnCell.__call__ and FactorizedRNN.__call__, run by thread t.  *)
(***************************************************************************)
\* the call is entered: via = "cell" for factorized_cell(state, x), "driver" for
\* f(x, state), whose first statement is out = self.cell(state, x)
Enter(t, inst, via, state, xx) ==
    fr' = [fr EXCEPT ![t] = [IdleFrame EXCEPT !.pc = "L58", !.inst = inst, !.via = via,
                                              !.x = xx, !.init = state, !.state = state]]

\* mutant: self.factor is kept from the previous call when that call's sequence
\* had the same length
WinIfLengthChanged(t) ==
    LET f == fr[t] IN
    /\ f.pc = "L58"
    /\ IF CanLinear(factorized_cell.a, f.x)
       THEN /\ factor' = IF factor[f.inst] # Nil /\ factor[f.inst].shape[1] = f.x.shape[1]
                         THEN factor
                         ELSE [factor EXCEPT ![f.inst] = LinearCall(factorized_cell.a, f.x)]
            /\ lastw' = [lastw EXCEPT ![f.inst] = t]
            /\ fr' = [fr EXCEPT ![t].pc = "L61"]
       ELSE /\ fr' = [fr EXCEPT ![t].pc = "raised"]
            /\ UNCHANGED <<factor, lastw>>
    /\ UNCHANGED <<sessionVars, pc, scanVars, resultVars, kept>>

\* self.factor = self.win(x)
Win(t) ==
    LET f == fr[t] IN
    /\ f.pc = "L58"
    /\ IF CanLinear(factorized_cell.a, f.x)
       THEN /\ factor' = [factor EXCEPT ![f.inst] = LinearCall(factorized_cell.a, f.x)]
            /\ lastw' = [lastw EXCEPT ![f.inst] = t]
            /\ fr' = [fr EXCEPT ![t].pc = "L61"]
       ELSE /\ fr' = [fr EXCEPT ![t].pc = "raised"]
            /\ UNCHANGED <<factor, lastw>>
    /\ UNCHANGED <<sessionVars, pc, scanVars, resultVars, kept>>

\* mutant: the loop reads a factor local to the call
FactorReadLocal(t) == LinearCall(factorized_cell.a, fr[t].x)

\* the self.factor that the loop body of thread t reads
FactorRead(t) == factor[fr[t].inst]

\* one iteration: state = activation(wn(state) + self.factor[i]);
\* output.append(reshape(state, (1, nstate)))
Loop(t) ==
    LET f == fr[t]
        c == factorized_cell
        g == FactorRead(t)
    IN
    /\ f.pc = "L61"
    /\ f.i < f.x.shape[1]
    /\ IF /\ CanLinear(c.h, f.state)
          /\ CanIndex(g, f.i)
          /\ CanAdd(LinearCall(c.h, f.state), Index(g, f.i))
          /\ CanReshape(Add(LinearCall(c.h, f.state), Index(g, f.i)), <<1, c.nstate>>)
       THEN LET st == Activation(Add(LinearCall(c.h, f.state), Index(g, f.i)))
            IN  fr' = [fr EXCEPT ![t].state = st,
                                 ![t].output = Append(f.output, Reshape(st, <<1, c.nstate>>)),
                                 ![t].i = f.i + 1,
                                 ![t].reads = Append(f.reads, lastw[f.inst])]
       ELSE fr' = [fr EXCEPT ![t].pc = "raised"]
    /\ UNCHANGED <<sessionVars, pc, scanVars, resultVars, factor, lastw, kept>>

\* after the loop: outputs = concatenate(output, axis=0);
\* return reshape(state, (1, nstate))
Finish(t) ==
    LET f == fr[t]
        c == factorized_cell
    IN
    /\ f.pc = "L61"
    /\ f.i >= f.x.shape[1]
    /\ IF CanConcatenate(f.output) /\ CanReshape(f.state, <<1, c.nstate>>)
       THEN fr' = [fr EXCEPT ![t].ret = Reshape(f.state, <<1, c.nstate>>),
                             ![t].pc = IF f.via = "cell" THEN "ret" ELSE "L198"]
       ELSE fr' = [fr EXCEPT ![t].pc = "raised"]
    /\ UNCHANGED <<sessionVars, pc, scanVars, resultVars, factor, lastw, kept>>

\* mutant: the cell's return value is handed on whole, as (1, nstate)
DriverReturnWhole(olayer, o) == <<LinearCall(olayer, o), o>>

\* FactorizedRNN.__call__ after the cell returned out:
\* output = self.output_layer(out); return output, out[-1]
DriverReturn(olayer, o) == <<LinearCall(olayer, o), Index(o, -1)>>

Output(t) ==
    LET f == fr[t] IN
    /\ f.pc = "L198"
    /\ IF CanLinear(out_layer, f.ret) /\ CanIndex(f.ret, -1)
       THEN fr' = [fr EXCEPT ![t].val = DriverReturn(out_layer, f.ret), ![t].pc = "ret"]
       ELSE fr' = [fr EXCEPT ![t].pc = "raised"]
    /\ UNCHANGED <<sessionVars, pc, scanVars, resultVars, factor, lastw, kept>>

\* what the finished call of thread t handed to its caller
FrameResult(t) ==
    IF fr[t].pc = "raised" THEN Raised
    ELSE IF fr[t].via = "cell" THEN Returned(<<fr[t].ret, Nil>>)
    ELSE Returned(fr[t].val)

FrameDone(t) == fr[t].pc \in {"ret", "raised"}

(***************************************************************************)
(* The example session, first part: y1 = r(x, s) and y4 = rnn_vec(x, s),    *)
(* each recorded as returned or raised.                                     *)
(***************************************************************************)
\* objax.functional.scan returns (final carry, stacked outputs)
ScanResult(final, outs, each) == <<final, Stack(outs, each)>>

\* mutant: the pair is returned in scan's order, (final_state, output)
DriverResultScanOrder(scanned) == <<scanned[1], scanned[2]>>

\* RNN.__call__ / VectorizedRNN.__call__: final_state, output = scan(...);
\* return output, final_state
DriverResult(scanned) == <<scanned[2], scanned[1]>>

\* RNN.__init__, VectorizedRNN.__init__, FactorizedRNN.__init__: the cell and
\* the output layer are stored, nothing is compared
NoDriver == [class |-> "none", nstate |-> 0, odim |-> 0]

Driver(class, cell, olayer) == [class |-> class, nstate |-> cell.nstate, odim |-> olayer.w.shape[1]]

\* r = RNN(rnn_cell, out_layer)
RnnInit ==
    /\ pc = "L207"
    /\ r' = Driver("RNN", rnn_cell, out_layer)
    /\ pc' = "L210"
    /\ UNCHANGED <<sessionVars, scanVars, y1, y4, frameVars, kept>>

\* r = VectorizedRNN(rnn_cell, out_layer); rnn_vec = objax.Vectorize(r, ...)
VecInit ==
    /\ pc = "L213"
    /\ r' = Driver("VectorizedRNN", rnn_cell, out_layer)
    /\ pc' = "L215"
    /\ UNCHANGED <<sessionVars, scanVars, y1, y4, frameVars, kept>>

\* mutant: the input is folded as supplied, without the transposition
RnnSequenceAsSupplied(xx) == xx

\* the sequence RNN.__call__ hands to scan: x.transpose((1, 0, 2))
RnnSequence(xx) == Transpose(xx)

\* y1 = r(x, s): RNN.__call__ up to the start of the fold
RnnCall ==
    /\ pc = "L210"
    /\ IF CanTranspose(x) /\ CanScan(rnn_cell, out_layer, s, RnnSequence(x))
       THEN /\ xs' = RnnSequence(x)
            /\ carry' = s
            /\ i' = 0
            /\ acc' = <<>>
            /\ pc' = "L128"
            /\ y1' = y1
       ELSE /\ y1' = Raised
            /\ pc' = "L213"
            /\ UNCHANGED <<xs, carry, i, acc>>
    /\ UNCHANGED <<sessionVars, b, vacc, y4, r, frameVars, kept>>

\* the element the fold consumes at step k (0-based)
ScanElement(seq, k) == Index(seq, k)

\* one step of scan(self.single, ...), in RNN or in VectorizedRNN
ScanStep ==
    /\ pc \in {"L128", "L168"}
    /\ i < xs.shape[1]
    /\ LET step == Single(rnn_cell, out_layer, carry, ScanElement(xs, i))
       IN  /\ carry' = step[1]
           /\ acc' = Append(acc, step[2])
    /\ i' = i + 1
    /\ UNCHANGED <<sessionVars, pc, xs, b, vacc, resultVars, frameVars, kept>>

\* RNN.__call__ returns
RnnReturn ==
    /\ pc = "L128"
    /\ i = xs.shape[1]
    /\ y1' = Returned(DriverResult(ScanResult(carry, acc, OutShape(rnn_cell, out_layer, s, xs))))
    /\ pc' = "L213"
    /\ xs' = Nil /\ carry' = Nil /\ i' = 0 /\ acc' = <<>>
    /\ UNCHANGED <<sessionVars, b, vacc, y4, r, frameVars, kept>>

\* y4 = rnn_vec(x, s): objax.Vectorize(r, batch_axis=(0, 0)) maps r over axis 0
\* of both arguments, which must have the same length there
VecCall ==
    /\ pc = "L215"
    /\ IF Rank(x) >= 1 /\ Rank(s) >= 1 /\ x.shape[1] = s.shape[1]
       THEN /\ b' = 0 /\ vacc' = <<>> /\ pc' = "L214" /\ y4' = y4
       ELSE /\ y4' = Raised /\ pc' = "done" /\ UNCHANGED <<b, vacc>>
    /\ UNCHANGED <<sessionVars, xs, i, carry, acc, y1, r, frameVars, kept>>

\* VectorizedRNN.__call__ on batch slice b, up to the start of the fold
VecSlice ==
    /\ pc = "L214"
    /\ b < x.shape[1]
    /\ IF CanScan(rnn_cell, out_layer, Index(s, b), Index(x, b))
       THEN /\ xs' = Index(x, b)
            /\ carry' = Index(s, b)
            /\ i' = 0
            /\ acc' = <<>>
            /\ pc' = "L168"
            /\ UNCHANGED <<y4, b, vacc>>
       ELSE /\ y4' = Raised
            /\ pc' = "done"
            /\ b' = 0 /\ vacc' = <<>>
            /\ UNCHANGED <<xs, carry, i, acc>>
    /\ UNCHANGED <<sessionVars, y1, r, frameVars, kept>>

\* VectorizedRNN.__call__ returns for batch slice b
VecSliceReturn ==
    /\ pc = "L168"
    /\ i = xs.shape[1]
    /\ vacc' = Append(vacc, DriverResult(ScanResult(carry, acc,
                                  OutShape(rnn_cell, out_layer, Index(s, b), xs))))
    /\ b' = b + 1
    /\ pc' = "L214"
    /\ xs' = Nil /\ carry' = Nil /\ i' = 0 /\ acc' = <<>>
    /\ UNCHANGED <<sessionVars, resultVars, frameVars, kept>>

\* the vectorized function's results, restacked along axis 0
Restack(rs) ==
    <<Stack([k \in 1..Len(rs) |-> rs[k][1]], rs[1][1].shape),
      Stack([k \in 1..Len(rs) |-> rs[k][2]], rs[1][2].shape)>>

VecReturn ==
    /\ pc = "L214"
    /\ b = x.shape[1]
    /\ y4' = Returned(Restack(vacc))
    /\ pc' = "done"
    /\ b' = 0 /\ vacc' = <<>>
    /\ UNCHANGED <<sessionVars, xs, i, carry, acc, y1, r, frameVars, kept>>

WeightSets == {0, 1}
Kinds == {"DDL", "My"}

\* the batch of initial states whose rows alternate, starting from StVec(v)
StateRows(B, v) == StateBatch(B, [k \in 1..B |-> (v + k) % 2])

Init ==
    /\ kind \in Kinds
    /\ seed \in WeightSets
    /\ odim \in {NState, NState + 1}
    /\ \E B \in 1..MaxBatch, T \in 0..MaxSeq :
          /\ x \in {InputBatch(B, T, m) : m \in [1..(B * T) -> 0..1]}
          /\ s \in {StateRows(B, v) : v \in 0..1}
    /\ pc = "L207"
    /\ xs = Nil /\ i = 0 /\ b = 0 /\ carry = Nil /\ acc = <<>> /\ vacc = <<>>
    /\ y1 = NoResult /\ y4 = NoResult
    /\ fr = [t \in Threads |-> IdleFrame]
    /\ factor = [n \in Insts |-> Nil]
    /\ lastw = [n \in Insts |-> 0]
    /\ kept = [t \in Threads |-> NoCall]
    /\ r = NoDriver

Next ==
    \/ RnnInit \/ VecInit
    \/ RnnCall \/ ScanStep \/ RnnReturn
    \/ VecCall \/ VecSlice \/ VecSliceReturn \/ VecReturn

Spec == Init /\ [][Next]_vars

(***************************************************************************)
(* The example session, second part: f = FactorizedRNN(factorized_cell,     *)
(* out_layer), then calls of factorized_cell(state, x) and of f(x, state),  *)
(* one after the other, on sequences and initial states of the caller's     *)
(* choice.                                                                  *)
(***************************************************************************)
\* the (T, nin) sequences of length T
SequencesOf(T) == {Stack([k \in 1..T |-> InVec(m[k])], <<NIn>>) : m \in [1..T -> 0..1]}

InputSequences == UNION {SequencesOf(T) : T \in 0..MaxSeq}

InitialStates == {StVec(v) : v \in 0..1}

\* f = FactorizedRNN(factorized_cell, out_layer)
FactorizedInit ==
    /\ pc = "L228"
    /\ r' = Driver("FactorizedRNN", factorized_cell, out_layer)
    /\ pc' = "calls"
    /\ UNCHANGED <<sessionVars, scanVars, y1, y4, frameVars, kept>>

\* thread t calls factorized_cell(st, xx) (via = "cell") or f(xx, st) (via = "driver")
Call(t) ==
    /\ pc = "calls"
    /\ fr[t].pc = "idle"
    /\ \E via \in {"cell", "driver"}, xx \in InputSequences, st \in InitialStates :
          Enter(t, 1, via, st, xx)
    /\ UNCHANGED <<sessionVars, pc, scanVars, resultVars, factor, lastw, kept>>

\* the call of thread t is over; the caller keeps its result or drops it
Return(t) ==
    /\ pc = "calls"
    /\ FrameDone(t)
    /\ \E keep \in BOOLEAN :
          kept' = IF keep
                  THEN [kept EXCEPT ![t] = [via |-> fr[t].via, x |-> fr[t].x,
                                            state |-> fr[t].init, res |-> FrameResult(t),
                                            between |-> FALSE]]
                  ELSE [kept EXCEPT ![t].between =
                           \/ kept[t].between
                           \/ kept[t].via # "none" /\ (fr[t].x # kept[t].x \/ fr[t].init # kept[t].state)]
    /\ fr' = [fr EXCEPT ![t] = IdleFrame]
    /\ UNCHANGED <<sessionVars, pc, scanVars, resultVars, factor, lastw>>

FInit ==
    /\ kind = "DDL"
    /\ seed \in WeightSets
    /\ odim = NState
    /\ x = Nil /\ s = Nil
    /\ pc = "L228"
    /\ xs = Nil /\ i = 0 /\ b = 0 /\ carry = Nil /\ acc = <<>> /\ vacc = <<>>
    /\ y1 = NoResult /\ y4 = NoResult
    /\ fr = [t \in Threads |-> IdleFrame]
    /\ factor = [n \in Insts |-> Nil]
    /\ lastw = [n \in Insts |-> 0]
    /\ kept = [t \in Threads |-> NoCall]
    /\ r = NoDriver

FNext ==
    \/ FactorizedInit
    \/ Call(1) \/ Return(1)
    \/ Win(1) \/ Loop(1) \/ Finish(1) \/ Output(1)

SpecF == FInit /\ [][FNext]_vars

(***************************************************************************)
(* Two threads, each making one call of a FactorizedRnnCell: thread 1 on    *)
(* instance 1, thread 2 on instance 1 or on instance 2 (equal weights) and  *)
(* from the zero state.                                                     *)
(***************************************************************************)
Spawn(t) ==
    /\ pc = "threads"
    /\ fr[t].pc = "idle"
    /\ \E inst \in (IF t = 1 THEN {1} ELSE Insts), xx \in InputSequences,
          st \in (IF t = 1 THEN InitialStates ELSE {StVec(0)}) :
          Enter(t, inst, "cell", st, xx)
    /\ UNCHANGED <<sessionVars, pc, scanVars, resultVars, factor, lastw, kept>>

CInit ==
    /\ kind = "DDL"
    /\ seed \in WeightSets
    /\ odim = NState
    /\ x = Nil /\ s = Nil
    /\ pc = "threads"
    /\ xs = Nil /\ i = 0 /\ b = 0 /\ carry = Nil /\ acc = <<>> /\ vacc = <<>>
    /\ y1 = NoResult /\ y4 = NoResult
    /\ fr = [t \in Threads |-> IdleFrame]
    /\ factor = [n \in Insts |-> Nil]
    /\ lastw = [n \in Insts |-> 0]
    /\ kept = [t \in Threads |-> NoCall]
    /\ r = NoDriver

CNext == \E t \in Threads : Spawn(t) \/ Win(t) \/ Loop(t) \/ Finish(t)

SpecConc == CInit /\ [][CNext]_vars

(***************************************************************************)
(* One call of a cell's update with a state vector and an input whose       *)
(* lengths are the cell's or off by one.                                    *)
(***************************************************************************)
\* a vector of length n
VecOfLen(n, v) == Tensor(<<n>>, [j \in 1..n |-> ((j + v) % 3) - 1])

\* a (T, n) sequence
SeqOfLen(T, n, v) == Stack([k \in 1..T |-> VecOfLen(n, v + k)], <<n>>)

\* MyRnnCell / DDLRnnCell: rnn_cell(s, x)
Update ==
    /\ pc = "update"
    /\ kind \in {"My", "DDL"}
    /\ y1' = IF CanCell(rnn_cell, s, x) THEN Returned(<<CellCall(rnn_cell, s, x), Nil>>)
             ELSE Raised
    /\ pc' = "done"
    /\ UNCHANGED <<sessionVars, scanVars, y4, r, frameVars, kept>>

\* FactorizedRnnCell: factorized_cell(s, x)
UpdateFactorized ==
    /\ pc = "update"
    /\ kind = "Factorized"
    /\ Enter(1, 1, "cell", s, x)
    /\ pc' = "L222"
    /\ UNCHANGED <<sessionVars, scanVars, resultVars, factor, lastw, kept>>

UpdateReturn ==
    /\ pc = "L222"
    /\ FrameDone(1)
    /\ y1' = FrameResult(1)
    /\ fr' = [fr EXCEPT ![1] = IdleFrame]
    /\ pc' = "done"
    /\ UNCHANGED <<sessionVars, scanVars, y4, r, factor, lastw, kept>>

SInit ==
    /\ kind \in {"My", "DDL", "Factorized"}
    /\ seed \in WeightSets
    /\ odim = NState
    /\ \E ls \in (NState - 1)..(NState + 1), lx \in (NIn - 1)..(NIn + 1), v \in 0..1 :
          /\ s = VecOfLen(ls, v)
          /\ x \in IF kind = "Factorized" THEN {SeqOfLen(T, lx, v) : T \in 1..MaxSeq}
                   ELSE {VecOfLen(lx, v + 1)}
    /\ pc = "update"
    /\ xs = Nil /\ i = 0 /\ b = 0 /\ carry = Nil /\ acc = <<>> /\ vacc = <<>>
    /\ y1 = NoResult /\ y4 = NoResult
    /\ fr = [t \in Threads |-> IdleFrame]
    /\ factor = [n \in Insts |-> Nil]
    /\ lastw = [n \in Insts |-> 0]
    /\ kept = [t \in Threads |-> NoCall]
    /\ r = NoDriver

SNext ==
    \/ Update \/ UpdateFactorized \/ UpdateReturn
    \/ Win(1) \/ Loop(1) \/ Finish(1)

SpecShape == SInit /\ [][SNext]_vars

(***************************************************************************)
(* Properties of the scan drivers.  The operators below are the vocabulary  *)
(* of the properties: they restate the specification, not the code.        *)
(***************************************************************************)
RECURSIVE StateAfter(_, _, _, _)
\* the recurrence, written out: state_0 = init, state_k = cell(state_k-1, elem(k))
\* where elems[k] is the k-th input (1-based)
StateAfter(cell, init, elems, k) ==
    IF k = 0 THEN init ELSE CellCall(cell, StateAfter(cell, init, elems, k - 1), elems[k])

\* x[bb, tt, :] (0-based) of the supplied batch-major input
ElementAt(xx, bb, tt) == Index(Index(xx, bb), tt)

\* the inputs of sequence bb alone, in time order
SequenceOf(xx, bb) == [k \in 1..xx.shape[2] |-> ElementAt(xx, bb, k - 1)]

\* x[:, tt, :]: the slice of the supplied batch-major input at time tt
TimeSlice(xx, tt) == Stack([k \in 1..xx.shape[1] |-> ElementAt(xx, k - 1, tt)], <<xx.shape[3]>>)

\* (outputs, final) is the left fold of cell and olayer over elems from init
IsFold(cell, olayer, init, elems, outputs, final) ==
    /\ Rank(outputs) >= 1
    /\ outputs.shape[1] = Len(elems)
    /\ \A k \in 1..Len(elems) :
          Index(outputs, k - 1) = LinearCall(olayer, StateAfter(cell, init, elems, k))
    /\ final = StateAfter(cell, init, elems, Len(elems))

\* the output layer takes states of the cell's dimension
Matching == out_layer.w.shape[1] = rnn_cell.nstate

BatchSize == x.shape[1]
SeqLen == x.shape[2]

\* C1: when both calls of the session are over, the vectorized driver (VectorizedRNN lifted over batch axis 0 of input and
\* initial state) gives, for every batch element, the per-step outputs and final
\* state of the fold over that sequence alone from that initial state; and where
\* the RNN driver run on the whole batch returns, the two agree after the RNN
\* output is transposed from (T, B, nout) to (B, T, nout) (the session's two
\* assertions), which is what happens with the session's DDLRnnCell and an
\* output layer of the cell's state dimension.
C1_BatchedEqualsSequential ==
    /\ (pc = "done" /\ y4.st = "ok") =>
          \A bb \in 0..(BatchSize - 1) :
             IsFold(rnn_cell, out_layer, Index(s, bb), SequenceOf(x, bb),
                    Index(y4.val[1], bb), Index(y4.val[2], bb))
    /\ (pc = "done" /\ y1.st = "ok" /\ y4.st = "ok") =>
          /\ y4.val[2] = y1.val[2]
          /\ y4.val[1] = Transpose(y1.val[1])
    /\ (pc = "done" /\ Matching /\ kind = "DDL") => (y1.st = "ok" /\ y4.st = "ok")
    /\ (pc = "done" /\ Matching) => y4.st = "ok"

C1_Witness ==
    /\ pc = "done" /\ y1.st = "ok" /\ y4.st = "ok"
    /\ BatchSize >= 2 /\ SeqLen >= 2
    /\ Index(y4.val[2], 0) # Index(y4.val[2], 1)
    /\ Index(y4.val[2], 0) # Index(s, 0)

C8_FoldsInputAsPresented ==
    /\ pc = "L128" => xs = x
    /\ pc = "L168" => xs = Index(x, b)
    /\ (pc \in {"L128", "L168"} /\ i < xs.shape[1]) =>
          ScanElement(xs, i) = Index(IF pc = "L128" THEN x ELSE Index(x, b), i)

\* C8, amended: RNN takes the input batch-major, (B, T, nin), and reorders it
\* itself: its step k consumes x[:, k, :], the k-th slice along axis 1 of the
\* supplied input, and its output is time-axis-first, (T, B, nout).
\* VectorizedRNN folds over axis 0 of its input as supplied.
C8_RnnReordersInput ==
    /\ (pc = "L128" /\ i < SeqLen) => ScanElement(xs, i) = TimeSlice(x, i)
    /\ pc = "L128" => xs.shape = <<SeqLen, BatchSize, NIn>>
    /\ (pc = "L168" /\ i < SeqLen) => ScanElement(xs, i) = ElementAt(x, b, i)
    /\ y1.st = "ok" => y1.val[1].shape = <<SeqLen, BatchSize, NOut>>
    /\ y4.st = "ok" => y4.val[1].shape = <<BatchSize, SeqLen, NOut>>

C8_Witness ==
    /\ pc = "L128" /\ i = 1 /\ BatchSize = 2 /\ SeqLen = 2
    /\ TimeSlice(x, 1) # Index(x, 1)

\* C6: no driver exists that was built from a cell and an output layer whose
\* dimensions disagree (building one fails with a ConstructionError).
C6_NoMismatchedDriver == r.class # "none" => r.nstate = r.odim

(***************************************************************************)
(* Properties of the factorized cell and driver.                            *)
(***************************************************************************)
\* the canonical two-weight cell with the weights of factorized_cell
Canonical == DDLRnnCell(seed, NIn, NState)

\* the elements of a (T, nin) sequence, in order
RowsOf(seq) == [k \in 1..seq.shape[1] |-> Index(seq, k - 1)]

\* the canonical cell's update applied once per element, in sequence order
CanonicalFinal(init, seq) == StateAfter(Canonical, init, RowsOf(seq), seq.shape[1])

\* C2: for the same weights, initial state and input sequence of length T >= 1,
\* the factorized cell's one call on the whole sequence returns (as (1, nstate))
\* the state that T successive single-step updates of the canonical cell reach;
\* after k iterations of its loop its state is the canonical state_k.
C2_FactorizedEqualsCanonical ==
    \A t \in Threads :
       LET f == fr[t] IN
       /\ f.pc = "L61" => f.state = StateAfter(Canonical, f.init, RowsOf(f.x), f.i)
       /\ f.pc \in {"L198", "ret"} =>
             f.ret = Reshape(CanonicalFinal(f.init, f.x), <<1, NState>>)
       /\ f.pc = "raised" => f.x.shape[1] = 0

C2_Witness ==
    /\ fr[1].pc = "ret" /\ fr[1].via = "cell"
    /\ fr[1].x.shape[1] = 2
    /\ fr[1].ret # Reshape(fr[1].init, <<1, NState>>)
    /\ fr[1].ret # Reshape(StateAfter(Canonical, fr[1].init, RowsOf(fr[1].x), 1), <<1, NState>>)

C7_RepeatedCallsAgree ==
    \A t \in Threads :
       LET f == fr[t] IN
       /\ (FrameDone(t) /\ kept[t].via = f.via /\ kept[t].x = f.x /\ kept[t].state = f.init) =>
             FrameResult(t) = kept[t].res
       /\ f.pc = "L61" => factor[f.inst] = LinearCall(factorized_cell.a, f.x)

C7_Witness ==
    /\ fr[1].pc = "ret" /\ fr[1].via = "driver"
    /\ kept[1].via = "driver" /\ kept[1].x = fr[1].x /\ kept[1].state = fr[1].init
    /\ kept[1].between
    /\ fr[1].x.shape[1] = 2

\* C10: a call of the factorized cell on an empty sequence (T = 0) completes and
\* returns the initial state, reshaped to (1, nstate).
C10_EmptySequenceReturnsInitial ==
    \A t \in Threads :
       LET f == fr[t] IN
       (f.pc \in {"L198", "ret", "raised"} /\ f.x.shape[1] = 0) =>
          /\ f.pc # "raised"
          /\ f.ret = Reshape(f.init, <<1, NState>>)

(***************************************************************************)
(* Properties of overlapping calls.                                         *)
(***************************************************************************)
\* what the call returns when no other call runs
Alone(init, seq) ==
    IF seq.shape[1] = 0 THEN Raised
    ELSE Returned(<<Reshape(CanonicalFinal(init, seq), <<1, NState>>), Nil>>)

RECURSIVE StateReading(_, _)
\* the state of thread t's call after k iterations, when iteration j read the
\* factor written by the call of thread reads[j] (no state when that factor has
\* no entry to read)
StateReading(t, k) ==
    IF k = 0 THEN fr[t].init
    ELSE LET written == LinearCall(factorized_cell.a, fr[fr[t].reads[k]].x)
         IN  IF CanIndex(written, k - 1)
             THEN Activation(Add(LinearCall(factorized_cell.h, StateReading(t, k - 1)),
                                 Index(written, k - 1)))
             ELSE Nil

\* C9: self.factor is shared by the calls that overlap on one instance: every
\* iteration reads the entry of the factor written last, by whichever call, so a
\* call returns the state computed from the entries it read; calls on distinct
\* instances (equal weights) return what they return when run alone.
C9_OverlappingCallsShareFactor ==
    \A t \in Threads :
       LET f == fr[t] IN
       /\ f.pc \in {"L61", "ret"} => f.state = StateReading(t, f.i)
       /\ (FrameDone(t) /\ \A u \in Threads \ {t} : fr[u].pc = "idle" \/ fr[u].inst # f.inst) =>
             FrameResult(t) = Alone(f.init, f.x)
       /\ (f.pc = "raised" /\ f.x.shape[1] > 0) =>
             \E u \in Threads \ {t} : /\ fr[u].inst = f.inst
                                      /\ lastw[f.inst] = u
                                      /\ fr[u].x.shape[1] = 0

C9_Witness ==
    /\ fr[1].pc = "ret" /\ fr[2].inst = 1
    /\ fr[1].reads = <<2, 2>>
    /\ FrameResult(1) # Alone(fr[1].init, fr[1].x)

(***************************************************************************)
(* Properties of the cells' shape checks.                                   *)
(***************************************************************************)
\* C5: an update called with a state whose length is not nstate, or with an
\* input whose length is not nin, raises, for every cell.
C5_MismatchRaises ==
    (pc = "done" /\ (s.shape[1] # NState \/ x.shape[Rank(x)] # NIn)) => y1.st = "raised"

====
